---- MODULE Spec2Model ----
(***************************************************************************)
(* Model of file_duplicate_checker (src/src/main.rs): a directory tree is  *)
(* scanned recursively, every file is hashed and grouped by digest, every  *)
(* group of two or more paths is listed and, in fix mode, resolved by an   *)
(* interactive prompt that deletes all paths of the group but one.         *)
(***************************************************************************)
EXTENDS Integers, Sequences, FiniteSets, TLC

VARIABLES
    fs,             \* the directory tree on disk: [DirIds -> [Names -> entry]]
    do_fix,         \* Cli::do_fix
    pc,             \* position of the single control flow
    stack,          \* active scan_rec calls: <<[path, todo]>>, innermost last
    file_map,       \* HashMap<Hash, FileInfo>: digest -> [paths, size]
    pending,        \* keys file_map.iter() in handle_duplicates has yet to yield
    cur,            \* key of the FileInfo fix_duplicates was called with
    index_to_keep,  \* the value the prompt loop broke with (Some(i)), 0-based
    idx,            \* position of the deletion loop of fix_duplicates, 0-based
    out,            \* terminal transcript, lines printed and lines typed, since
                    \* the banner or the header of the latest duplicate set
    exit_code,      \* ExitCode returned by main; -1 while running
    err             \* the io::Error a call handed to the ? operator, or "none"

vars == <<fs, do_fix, pc, stack, file_map, pending, cur, index_to_keep, idx, out,
          exit_code, err>>

\* ------------------------------------------------------------------ bounds
\* invalid answers (unparsable or out of range) typed for one duplicate set
MaxInvalid == 2
\* symbolic links one path resolution follows before it fails (ELOOP)
MaxSymlinks == 2

\* ------------------------------------------------------------ file system
DirIds == {"root", "sub"}
Names == {"a", "b", "c", "d", "l", "sub", "zz"}

NoEntry == [k |-> "none", data |-> <<>>, to |-> <<>>]
FileEntry(data) == [k |-> "file", data |-> data, to |-> <<>>]
DirEntry(id) == [k |-> "dir", data |-> <<>>, to |-> <<id>>]
LinkEntry(target) == [k |-> "link", data |-> <<>>, to |-> target]
OtherEntry == [k |-> "other", data |-> <<>>, to |-> <<>>]

Front(s) == SubSeq(s, 1, Len(s) - 1)
Last(s) == s[Len(s)]

RECURSIVE StatUnlimited(_, _, _, _)
StatUnlimited(f, dir, p, n) ==
    IF p = <<>> THEN DirEntry(dir)
    ELSE LET e == f[dir][Head(p)] IN
         CASE e.k = "dir" -> StatUnlimited(f, e.to[1], Tail(p), n)
           [] e.k = "link" -> StatUnlimited(f, dir, e.to \o Tail(p), n)
           [] e.k \in {"file", "other"} -> IF Tail(p) = <<>> THEN e ELSE NoEntry
           [] OTHER -> NoEntry

\* What the path p, taken from directory dir, denotes when every symbolic
\* link on the way, the last component included, is followed (stat).
RECURSIVE Stat(_, _, _, _)
Stat(f, dir, p, n) ==
    IF p = <<>> THEN DirEntry(dir)
    ELSE LET e == f[dir][Head(p)] IN
         CASE e.k = "dir" -> Stat(f, e.to[1], Tail(p), n)
           [] e.k = "link" -> IF n = 0 THEN NoEntry
                              ELSE Stat(f, dir, e.to \o Tail(p), n - 1)
           [] e.k \in {"file", "other"} -> IF Tail(p) = <<>> THEN e ELSE NoEntry
           [] OTHER -> NoEntry

\* Path::is_dir and Path::is_file: both query the metadata of the path
\* with symbolic links traversed, and answer false when the query fails.
IsDir(f, p) == Stat(f, "root", p, MaxSymlinks).k = "dir"
IsFile(f, p) == Stat(f, "root", p, MaxSymlinks).k = "file"

\* The directory entry p names itself, its last component not followed (lstat).
LStat(f, p) ==
    IF p = <<>> THEN DirEntry("root")
    ELSE LET d == Stat(f, "root", Front(p), MaxSymlinks) IN
         IF d.k = "dir" THEN f[d.to[1]][Last(p)] ELSE NoEntry

\* std::fs::read_dir: the names of the entries of the directory p denotes.
ReadDir(f, p) ==
    LET d == Stat(f, "root", p, MaxSymlinks) IN
    IF d.k = "dir" THEN {n \in Names : f[d.to[1]][n].k # "none"} ELSE {}

\* std::fs::read: the bytes of the file p denotes.
ReadFile(f, p) == Stat(f, "root", p, MaxSymlinks).data

\* std::fs::remove_file (unlink): the directories of the path are resolved
\* through symbolic links, the last component is not; a directory or a
\* missing entry is refused.
CanRemove(f, p) ==
    /\ p # <<>>
    /\ Stat(f, "root", Front(p), MaxSymlinks).k = "dir"
    /\ f[Stat(f, "root", Front(p), MaxSymlinks).to[1]][Last(p)].k \in {"file", "link", "other"}
RemoveFile(f, p) ==
    LET d == Stat(f, "root", Front(p), MaxSymlinks).to[1] IN
    [f EXCEPT ![d][Last(p)] = NoEntry]

\* ---------------------------------------------------------------- hashing
Bytes == {0, 1}
Contents == {<<>>, <<0>>, <<1>>}

\* sha_256 digest of the data; collision-free on Contents, as SHA-256 is
\* assumed to be: the bytes are read as binary digits behind a leading 1.
RECURSIVE Sha256(_)
Sha256(data) == IF data = <<>> THEN 1 ELSE 2 * Sha256(Front(data)) + Last(data)

\* hash_file: (Hash, data.len())
HashFile(f, p) == <<Sha256(ReadFile(f, p)), Len(ReadFile(f, p))>>

\* ------------------------------------------------------------- the index
\* FileInfo::new and FileInfo::add_path
FileInfoNew(path, size) == [paths |-> <<path>>, size |-> size]
AddPathReplace(info, path) == [info EXCEPT !.paths = <<path>>]
AddPath(info, path) == [info EXCEPT !.paths = Append(@, path)]

\* scan_rec, lines 24-28: append to the record of the digest, or create it
InsertOverwrite(m, hash, size, path) ==
    [h \in DOMAIN m \cup {hash} |->
        IF h = hash THEN FileInfoNew(path, size) ELSE m[h]]
Insert(m, hash, size, path) ==
    IF hash \in DOMAIN m
    THEN [m EXCEPT ![hash] = AddPath(@, path)]
    ELSE [h \in DOMAIN m \cup {hash} |->
            IF h = hash THEN FileInfoNew(path, size) ELSE m[h]]

\* handle_duplicates, line 84: the filter of the iteration
IsDuplicateSet(v) == Len(v.paths) > 1

\* ------------------------------------------------------------ the prompt
Digits == {"0", "1", "2", "3", "4", "5", "6", "7", "8", "9"}
DigitVal(c) ==
    CASE c = "0" -> 0 [] c = "1" -> 1 [] c = "2" -> 2 [] c = "3" -> 3
      [] c = "4" -> 4 [] c = "5" -> 5 [] c = "6" -> 6 [] c = "7" -> 7
      [] c = "8" -> 8 [] c = "9" -> 9
White == {" ", "\n"}

\* The lines the user may type; <<>> is end of input (read_line reads 0 bytes).
\* At most two digits, so no value comes near usize::MAX.
Lines == {
    <<"0", "\n">>, <<"1", "\n">>, <<"2", "\n">>, <<"3", "\n">>,
    <<"1", "0", "\n">>, <<" ", "+", "2", " ", "\n">>,
    <<"-", "1", "\n">>, <<"x", "\n">>, <<>> }

\* str::trim
RECURSIVE TrimStart(_)
TrimStart(s) == IF s # <<>> /\ Head(s) \in White THEN TrimStart(Tail(s)) ELSE s
RECURSIVE TrimEnd(_)
TrimEnd(s) == IF s # <<>> /\ Last(s) \in White THEN TrimEnd(Front(s)) ELSE s
Trim(s) == TrimEnd(TrimStart(s))

\* str::parse::<usize>: an optional "+", then one or more decimal digits
RECURSIVE DecimalValue(_)
DecimalValue(s) == IF s = <<>> THEN 0 ELSE 10 * DecimalValue(Front(s)) + DigitVal(Last(s))
ParseUsizeOrZero(s) ==
    LET body == IF s # <<>> /\ Head(s) = "+" THEN Tail(s) ELSE s IN
    IF body = <<>> \/ \E i \in 1..Len(body) : body[i] \notin Digits
    THEN [ok |-> TRUE, val |-> 0]
    ELSE [ok |-> TRUE, val |-> DecimalValue(body)]
ParseUsize(s) ==
    LET body == IF s # <<>> /\ Head(s) = "+" THEN Tail(s) ELSE s IN
    IF body = <<>> \/ \E i \in 1..Len(body) : body[i] \notin Digits
    THEN [ok |-> FALSE, val |-> 0]
    ELSE [ok |-> TRUE, val |-> DecimalValue(body)]

\* fix_duplicates, line 103: the range test of the parsed value
InRangeExclusive(v, n) == v < n
InRange(v, n) == v <= n

\* fix_duplicates, lines 104-108: None, or Some(candidate - 1)
None == [some |-> FALSE, index |-> 0]
Some(i) == [some |-> TRUE, index |-> i]
SelectionOffByOne(v) == IF v = 0 THEN None ELSE Some(v)
SelectionNoAbstain(v) == IF v = 0 THEN Some(0) ELSE Some(v - 1)
Selection(v) == IF v = 0 THEN None ELSE Some(v - 1)

\* ----------------------------------------------------------- transcript
Ev(t, a) == [t |-> t, a |-> a]
RECURSIVE Listing(_, _)
Listing(paths, i) ==
    IF i > Len(paths) THEN <<>>
    ELSE <<Ev("item", <<i, paths[i]>>)>> \o Listing(paths, i + 1)
Invalids(o) == Cardinality({i \in 1..Len(o) : o[i].t \in {"invalid_input", "invalid_index"}})

\* ------------------------------------------------------------------ Init
\* Trees: root holds a, b, the directory sub and the entry l; sub holds c, d.
Tree(a, b, c, d, l) ==
    [dir \in DirIds |->
        IF dir = "root"
        THEN [n \in Names |->
                CASE n = "a" -> a [] n = "b" -> b [] n = "l" -> l
                  [] n = "sub" -> DirEntry("sub") [] OTHER -> NoEntry]
        ELSE [n \in Names |->
                CASE n = "c" -> c [] n = "d" -> d [] OTHER -> NoEntry]]

X == FileEntry(<<0>>)
Y == FileEntry(<<1>>)
E == FileEntry(<<>>)

\* trees without symbolic links; l is absent or a socket
PlainTrees ==
    {Tree(X, b, c, d, l) :
        b \in {NoEntry, X}, c \in {X, Y}, d \in {NoEntry, Y, E}, l \in {NoEntry, OtherEntry}}
\* l is a symbolic link to the file a, or a dangling one
FileLinkTrees ==
    {Tree(X, b, c, NoEntry, l) :
        b \in {NoEntry, X}, c \in {X, Y}, l \in {LinkEntry(<<"a">>), LinkEntry(<<"zz">>)}}
\* l is a symbolic link to the directory sub
DirLinkTrees ==
    {Tree(X, NoEntry, c, d, LinkEntry(<<"sub">>)) : c \in {X, Y}, d \in {NoEntry, E}}
\* the same with a duplicate beside it: three records of two paths each
ThreeSetTrees == {Tree(X, X, Y, E, LinkEntry(<<"sub">>))}

\* l is a symbolic link to the root itself: a cycle
CycleTrees == {Tree(X, NoEntry, NoEntry, NoEntry, LinkEntry(<<>>))}
\* no file at all: the root holds the empty directory sub, and maybe a socket
EmptyTrees == {Tree(NoEntry, NoEntry, NoEntry, NoEntry, l) : l \in {NoEntry, OtherEntry}}

Init ==
    /\ fs \in PlainTrees \cup FileLinkTrees \cup DirLinkTrees \cup ThreeSetTrees
                \cup CycleTrees \cup EmptyTrees
    /\ do_fix \in BOOLEAN
    /\ pc = "start"
    /\ stack = <<>>
    /\ file_map = <<>>
    /\ pending = {}
    /\ cur = 0
    /\ index_to_keep = 0
    /\ idx = 0
    /\ out = <<>>
    /\ exit_code = -1
    /\ err = "none"

\* --------------------------------------------------------------- actions
\* main, lines 148-150: a run that returned Err
Abort(o, e) ==
    /\ err' = e
    /\ pc' = "done"
    /\ exit_code' = 1
    /\ out' = Append(o, Ev("error", <<>>))
    /\ stack' = <<>>

Top == stack[Len(stack)]
Rest(n) == [stack EXCEPT ![Len(stack)].todo = @ \ {n}]

\* main prints the banner; scan_on_directory calls scan_rec on the target
Start ==
    /\ pc = "start"
    /\ out' = <<Ev("scanning", <<>>)>>
    /\ stack' = <<[path |-> <<>>, todo |-> ReadDir(fs, <<>>)]>>
    /\ pc' = "scan"
    /\ UNCHANGED <<fs, do_fix, file_map, pending, cur, index_to_keep, idx, exit_code, err>>

\* read_dir of the target fails (line 16)
StartFail ==
    /\ pc = "start"
    /\ Abort(<<Ev("scanning", <<>>)>>, "read_dir")
    /\ UNCHANGED <<fs, do_fix, file_map, pending, cur, index_to_keep, idx>>

\* the iterator yields an error (line 18)
ScanEntryFail ==
    /\ pc = "scan"
    /\ Top.todo # {}
    /\ Abort(out, "entry")
    /\ UNCHANGED <<fs, do_fix, file_map, pending, cur, index_to_keep, idx>>

\* lines 20-21: a directory; scan_rec is entered and lists it
ScanDir ==
    /\ pc = "scan"
    /\ \E n \in Top.todo :
        LET p == Top.path \o <<n>> IN
        /\ IsDir(fs, p)
        /\ stack' = Append(Rest(n), [path |-> p, todo |-> ReadDir(fs, p)])
    /\ UNCHANGED <<fs, do_fix, pc, file_map, pending, cur, index_to_keep, idx, out, exit_code, err>>

\* lines 20-21, 16: a directory whose listing fails
ScanDirFail ==
    /\ pc = "scan"
    /\ \E n \in Top.todo : IsDir(fs, Top.path \o <<n>>)
    /\ Abort(out, "read_dir")
    /\ UNCHANGED <<fs, do_fix, file_map, pending, cur, index_to_keep, idx>>

\* lines 22-28: a file; it is hashed and entered into the index
ScanFile ==
    /\ pc = "scan"
    /\ \E n \in Top.todo :
        LET p == Top.path \o <<n>> IN
        /\ ~IsDir(fs, p)
        /\ IsFile(fs, p)
        /\ file_map' = Insert(file_map, HashFile(fs, p)[1], HashFile(fs, p)[2], p)
        /\ stack' = Rest(n)
    /\ UNCHANGED <<fs, do_fix, pc, pending, cur, index_to_keep, idx, out, exit_code, err>>

ScanFileFailSkips ==
    /\ pc = "scan"
    /\ \E n \in Top.todo :
        /\ ~IsDir(fs, Top.path \o <<n>>)
        /\ IsFile(fs, Top.path \o <<n>>)
        /\ stack' = Rest(n)
    /\ err' = "read"
    /\ UNCHANGED <<fs, do_fix, pc, file_map, pending, cur, index_to_keep, idx, out, exit_code>>

\* lines 22-23, 55: a file that cannot be read
ScanFileFail ==
    /\ pc = "scan"
    /\ \E n \in Top.todo :
        /\ ~IsDir(fs, Top.path \o <<n>>)
        /\ IsFile(fs, Top.path \o <<n>>)
    /\ Abort(out, "read")
    /\ UNCHANGED <<fs, do_fix, file_map, pending, cur, index_to_keep, idx>>

\* lines 20-29: an entry neither branch matches
ScanSkip ==
    /\ pc = "scan"
    /\ \E n \in Top.todo :
        LET p == Top.path \o <<n>> IN
        /\ ~IsDir(fs, p)
        /\ ~IsFile(fs, p)
        /\ stack' = Rest(n)
    /\ UNCHANGED <<fs, do_fix, pc, file_map, pending, cur, index_to_keep, idx, out, exit_code, err>>

\* line 31: the listing is exhausted; the outermost return hands the map
\* to handle_duplicates (line 129)
ScanReturn ==
    /\ pc = "scan"
    /\ Top.todo = {}
    /\ stack' = Front(stack)
    /\ IF Len(stack) = 1
       THEN pc' = "report" /\ pending' = DOMAIN file_map
       ELSE pc' = pc /\ pending' = pending
    /\ UNCHANGED <<fs, do_fix, file_map, cur, index_to_keep, idx, out, exit_code, err>>

ReportSetAgain ==
    /\ pc = "report"
    /\ \E h \in pending :
        /\ IsDuplicateSet(file_map[h])
        /\ out' = <<Ev("hashset", <<h, file_map[h].size>>)>>
                      \o Listing(file_map[h].paths, 1)
        /\ pending' = pending
        /\ IF do_fix THEN pc' = "prompt" /\ cur' = h ELSE pc' = pc /\ cur' = cur
    /\ UNCHANGED <<fs, do_fix, stack, file_map, index_to_keep, idx, exit_code, err>>

\* handle_duplicates, lines 84-91: the next record the filter lets through
ReportSet ==
    /\ pc = "report"
    /\ \E h \in pending :
        /\ IsDuplicateSet(file_map[h])
        /\ out' = <<Ev("hashset", <<h, file_map[h].size>>)>>
                      \o Listing(file_map[h].paths, 1)
        /\ pending' = pending \ {h}
        /\ IF do_fix THEN pc' = "prompt" /\ cur' = h ELSE pc' = pc /\ cur' = cur
    /\ UNCHANGED <<fs, do_fix, stack, file_map, index_to_keep, idx, exit_code, err>>

\* line 93 and main, line 147: the iteration is over
Finish ==
    /\ pc = "report"
    /\ \A h \in pending : ~IsDuplicateSet(file_map[h])
    /\ pc' = "done"
    /\ exit_code' = 0
    /\ pending' = {}
    /\ UNCHANGED <<fs, do_fix, stack, file_map, cur, index_to_keep, idx, out, err>>

\* fix_duplicates, lines 97-115: one turn of the prompt loop
Prompt ==
    /\ pc = "prompt"
    /\ \E line \in Lines :
        LET o == out \o <<Ev("prompt", <<>>), Ev("input", line)>>
            r == ParseUsize(Trim(line))
            n == Len(file_map[cur].paths)
        IN  IF r.ok
            THEN IF InRange(r.val, n)
                 THEN /\ out' = o
                      /\ IF Selection(r.val).some
                         THEN pc' = "delete" /\ cur' = cur
                              /\ index_to_keep' = Selection(r.val).index
                         ELSE pc' = "report" /\ cur' = 0 /\ index_to_keep' = 0
                 ELSE /\ Invalids(out) < MaxInvalid
                      /\ out' = Append(o, Ev("invalid_index", <<>>))
                      /\ UNCHANGED <<pc, cur, index_to_keep>>
            ELSE /\ Invalids(out) < MaxInvalid
                 /\ out' = Append(o, Ev("invalid_input", <<>>))
                 /\ UNCHANGED <<pc, cur, index_to_keep>>
    /\ idx' = 0
    /\ UNCHANGED <<fs, do_fix, stack, file_map, pending, exit_code, err>>

PromptIoFailGoesOn ==
    /\ pc = "prompt"
    /\ \E e \in {"flush", "read_line"} :
        /\ err' = e
        /\ pc' = "report"
        /\ out' = Append(out, Ev("prompt", <<>>))
        /\ UNCHANGED <<stack, exit_code>>
    /\ UNCHANGED <<fs, do_fix, file_map, pending, cur, index_to_keep, idx>>

\* line 99 or line 101: flushing the prompt, or reading the line, fails
PromptIoFail ==
    /\ pc = "prompt"
    /\ \E e \in {"flush", "read_line"} : Abort(Append(out, Ev("prompt", <<>>)), e)
    /\ UNCHANGED <<fs, do_fix, file_map, pending, cur, index_to_keep, idx>>

\* lines 116-117: the path to keep is passed over
DeleteSkip ==
    /\ pc = "delete"
    /\ idx < Len(file_map[cur].paths)
    /\ idx = index_to_keep
    /\ idx' = idx + 1
    /\ UNCHANGED <<fs, do_fix, pc, stack, file_map, pending, cur, index_to_keep, out, exit_code, err>>

\* lines 117-119: remove_file succeeds
DeleteOk ==
    /\ pc = "delete"
    /\ idx < Len(file_map[cur].paths)
    /\ idx # index_to_keep
    /\ CanRemove(fs, file_map[cur].paths[idx + 1])
    /\ fs' = RemoveFile(fs, file_map[cur].paths[idx + 1])
    /\ out' = Append(out, Ev("deleting", file_map[cur].paths[idx + 1]))
    /\ idx' = idx + 1
    /\ UNCHANGED <<do_fix, pc, stack, file_map, pending, cur, index_to_keep, exit_code, err>>

DeleteFailPropagates ==
    /\ pc = "delete"
    /\ idx < Len(file_map[cur].paths)
    /\ idx # index_to_keep
    /\ Abort(out \o <<Ev("deleting", file_map[cur].paths[idx + 1]), Ev("unable", <<>>)>>,
             "remove_file")
    /\ UNCHANGED <<fs, do_fix, file_map, pending, cur, index_to_keep, idx>>

\* lines 117-121: remove_file fails (no permission, or nothing to unlink)
DeleteFail ==
    /\ pc = "delete"
    /\ idx < Len(file_map[cur].paths)
    /\ idx # index_to_keep
    /\ out' = out \o <<Ev("deleting", file_map[cur].paths[idx + 1]), Ev("unable", <<>>)>>
    /\ idx' = idx + 1
    /\ UNCHANGED <<fs, do_fix, pc, stack, file_map, pending, cur, index_to_keep, exit_code, err>>

\* line 125: the deletion loop is over, fix_duplicates returns Ok
DeleteDone ==
    /\ pc = "delete"
    /\ idx = Len(file_map[cur].paths)
    /\ pc' = "report"
    /\ cur' = 0
    /\ index_to_keep' = 0
    /\ idx' = 0
    /\ UNCHANGED <<fs, do_fix, stack, file_map, pending, out, exit_code, err>>

Next ==
    \/ Start \/ StartFail
    \/ ScanEntryFail \/ ScanDir \/ ScanDirFail \/ ScanFile \/ ScanFileFail
    \/ ScanSkip \/ ScanReturn
    \/ ReportSet \/ Finish
    \/ Prompt \/ PromptIoFail
    \/ DeleteSkip \/ DeleteOk \/ DeleteFail \/ DeleteDone

Spec == Init /\ [][Next]_vars
\* Report-only runs on every tree, fix-mode runs on the cycle tree alone;
\* the process is never suspended for good: while a step is possible, one
\* is taken.
FairInit == Init /\ (do_fix => fs \in CycleTrees)
FairSpec == FairInit /\ [][Next]_vars /\ WF_vars(Next)

\* ------------------------------------------------- vocabulary of the claims
\* the regular files of the tree, found without following symbolic links
RECURSIVE FilesUnder(_, _, _)
FilesUnder(f, dir, prefix) ==
    {prefix \o <<n>> : n \in {m \in Names : f[dir][m].k = "file"}}
    \cup UNION {FilesUnder(f, f[dir][n].to[1], prefix \o <<n>>) :
                    n \in {m \in Names : f[dir][m].k = "dir"}}
RegularFiles == FilesUnder(fs, "root", <<>>)

\* the directory entry a path ends at once all symbolic links are followed
RECURSIVE Loc(_, _, _, _)
Loc(f, dir, p, n) ==
    IF p = <<>> THEN <<dir>>
    ELSE LET e == f[dir][Head(p)] IN
         CASE e.k = "dir" -> IF Tail(p) = <<>> THEN <<dir, Head(p)>>
                             ELSE Loc(f, e.to[1], Tail(p), n)
           [] e.k = "link" -> IF n = 0 THEN <<>> ELSE Loc(f, dir, e.to \o Tail(p), n - 1)
           [] e.k \in {"file", "other"} -> IF Tail(p) = <<>> THEN <<dir, Head(p)>> ELSE <<>>
           [] OTHER -> <<>>
SameFile(p, q) ==
    /\ Loc(fs, "root", p, MaxSymlinks) # <<>>
    /\ Loc(fs, "root", p, MaxSymlinks) = Loc(fs, "root", q, MaxSymlinks)

Exists(p) == LStat(fs, p).k # "none"
Content(p) == LStat(fs, p).data

\* the scan returned Ok and handle_duplicates has not yet yielded a record
ScanJustDone == pc = "report" /\ pending = DOMAIN file_map /\ err = "none"
SameRecord(p, q) ==
    \E h \in DOMAIN file_map :
        /\ \E i \in 1..Len(file_map[h].paths) : file_map[h].paths[i] = p
        /\ \E i \in 1..Len(file_map[h].paths) : file_map[h].paths[i] = q

\* the transcript of the current duplicate set
Attempts(p) == {i \in 1..Len(out) : out[i].t = "deleting" /\ out[i].a = p}
FailureReported(p) ==
    \E i \in Attempts(p) : i < Len(out) /\ out[i + 1].t = "unable"
NoDeleting(o) == \A i \in 1..Len(o) : o[i].t # "deleting"
CurPaths == file_map[cur].paths
\* fix_duplicates has run its deletion loop to the end
KeepResolved == pc = "delete" /\ idx = Len(CurPaths)

\* ------------------------------------------------------------------ claims

\* C1: after a Keep(index) resolution the path at index still exists on disk,
\* it was never passed to a deletion attempt, and every other path of the set
\* was attempted exactly once and either no longer exists, or still exists
\* with a failure reported for it.
C1_KeepLeavesOnlyTheKeptPath ==
    KeepResolved =>
        \A j \in 1..Len(CurPaths) :
            IF j = index_to_keep + 1
            THEN Exists(CurPaths[j]) /\ Attempts(CurPaths[j]) = {}
            ELSE /\ Cardinality(Attempts(CurPaths[j])) = 1
                 /\ \/ ~Exists(CurPaths[j])
                    \/ FailureReported(CurPaths[j])

\* this step is the turn of the prompt loop that reads "0"
AbstainTurn ==
    /\ pc = "prompt"
    /\ Len(out') = Len(out) + 2
    /\ out'[Len(out')].t = "input"
    /\ out'[Len(out')].a \in {<<"0", "\n">>}

\* C2: an accepted 0 (Abstain) leaves the file system as it was when the set
\* was listed: no turn of the prompt loop changes it, and the turn that reads
\* the 0 returns to handle_duplicates with no deletion attempted for the set.
C2_AbstainTouchesNothing ==
    [][ /\ (pc = "prompt" => fs' = fs)
        /\ (AbstainTurn => pc' = "report" /\ NoDeleting(out') /\ fs' = fs) ]_vars
C2_Witness ==
    /\ pc = "report"
    /\ Len(out) > 3
    /\ out[Len(out)] = Ev("input", <<"0", "\n">>)
    /\ out[Len(out) - 2].t \in {"invalid_input", "invalid_index"}
    /\ cur = 0

\* C3: after a successful scan two regular files of the tree are in the same
\* FileRecord exactly if their contents are byte-identical.
C3_SameRecordIffSameContent ==
    ScanJustDone =>
        \A p \in RegularFiles : \A q \in RegularFiles :
            SameRecord(p, q) <=> Content(p) = Content(q)
C3_Witness ==
    /\ ScanJustDone
    /\ SameRecord(<<"a">>, <<"sub", "c">>)
    /\ <<"sub", "d">> \in RegularFiles
    /\ ~SameRecord(<<"a">>, <<"sub", "d">>)
    /\ \E h \in DOMAIN file_map :
          Len(file_map[h].paths) = 3 /\ file_map[h].paths[3] = <<"a">>

\* the value of each line of Lines that is an unsigned number, else -1
LineValue(l) ==
    CASE l = <<"0", "\n">> -> 0
      [] l = <<"1", "\n">> -> 1
      [] l = <<"2", "\n">> -> 2
      [] l = <<"3", "\n">> -> 3
      [] l = <<"1", "0", "\n">> -> 10
      [] l = <<" ", "+", "2", " ", "\n">> -> 2
      [] OTHER -> -1
\* this step is a turn of the prompt loop that reads the line l
ReadsLine(l) ==
    /\ pc = "prompt"
    /\ Len(out') >= Len(out) + 2
    /\ out'[Len(out) + 2].t = "input"
    /\ out'[Len(out) + 2].a = l
\* this step passes a path to remove_file
IsAttempt ==
    /\ pc = "delete"
    /\ Len(out') > Len(out)
    /\ out'[Len(out) + 1].t = "deleting"
AcceptedValue ==
    LET ins == {i \in 1..Len(out) : out[i].t = "input"} IN
    IF ins = {} THEN -1
    ELSE LineValue(out[CHOOSE i \in ins : \A k \in ins : k <= i].a)
UniqueContent(p) ==
    \A q \in RegularFiles \ {p} : Content(q) # Content(p)

\* C4: a path is passed to a deletion attempt only in fix mode, only if it
\* belongs to a FileRecord of 2 or more paths, and only if the user chose
\* Keep for that set with another index; the file system changes through
\* such attempts alone, so never in a report-only run; and a regular file
\* whose content no other regular file of the tree has is never deleted.
C4_DeletionOnlyOfChosenDuplicates ==
    [][ /\ IsAttempt =>
              /\ do_fix
              /\ Len(CurPaths) >= 2
              /\ AcceptedValue = index_to_keep + 1
              /\ \E j \in 1..Len(CurPaths) :
                    /\ CurPaths[j] = out'[Len(out) + 1].a
                    /\ j # index_to_keep + 1
        /\ (fs' # fs => IsAttempt)
        /\ (~do_fix => fs' = fs)
        /\ \A p \in RegularFiles :
              UniqueContent(p) => LStat(fs', p) = LStat(fs, p) ]_vars

\* the lines of Lines that are no unsigned integer
InvalidLines == {<<"-", "1", "\n">>, <<"x", "\n">>, <<>>}

\* C5: a line that is no unsigned integer (text, a negative number, an empty
\* line) is answered with the "invalid input" report and the loop turns again
\* for the same set: nothing is deleted, the set is not left, the run goes
\* on; the turn after an "invalid input" report starts with the prompt.
C5_InvalidInputRetries ==
    [][ /\ \A l \in InvalidLines :
              ReadsLine(l) =>
                  /\ out' = out \o <<Ev("prompt", <<>>), Ev("input", l),
                                     Ev("invalid_input", <<>>)>>
                  /\ pc' = "prompt"
                  /\ cur' = cur
                  /\ pending' = pending
                  /\ fs' = fs
                  /\ exit_code' = -1
                  /\ err' = "none"
        /\ (pc = "prompt" /\ out[Len(out)].t = "invalid_input"
               => out'[Len(out) + 1].t = "prompt") ]_vars
C5_Witness ==
    /\ pc = "prompt"
    /\ Len(out) > 6
    /\ out[Len(out)].t = "invalid_input"
    /\ out[Len(out) - 1] = Ev("input", <<>>)
    /\ out[Len(out) - 3].t = "invalid_input"
    /\ out[Len(out) - 4] = Ev("input", <<"-", "1", "\n">>)

\* C6: a parsed value v decides the turn for a set of n paths: 0 abstains,
\* 1..n keeps the path at v - 1, more than n reports "invalid index" and
\* turns again for the same set with nothing deleted; the index the deletion
\* loop runs with is always a position of the set.
C6_ValueDecidesTransition ==
    /\ [][ \A l \in Lines :
              (LineValue(l) >= 0 /\ ReadsLine(l)) =>
                  LET v == LineValue(l)
                      n == Len(CurPaths)
                  IN  /\ fs' = fs
                      /\ pending' = pending
                      /\ exit_code' = -1
                      /\ (v = 0 => pc' = "report" /\ NoDeleting(out'))
                      /\ (v >= 1 /\ v <= n =>
                            pc' = "delete" /\ cur' = cur /\ index_to_keep' = v - 1
                            /\ idx' = 0)
                      /\ (v > n =>
                            /\ out' = out \o <<Ev("prompt", <<>>), Ev("input", l),
                                               Ev("invalid_index", <<>>)>>
                            /\ pc' = "prompt"
                            /\ cur' = cur) ]_vars
    /\ [](pc = "delete" => index_to_keep \in 0..(Len(CurPaths) - 1))
C6_Witness ==
    /\ pc = "delete"
    /\ idx = 0
    /\ Len(CurPaths) = 3
    /\ index_to_keep = 2
    /\ out[Len(out)] = Ev("input", <<"3", "\n">>)
    /\ out[Len(out) - 2].t = "invalid_index"

\* this step is a deletion attempt that fails
FailStep ==
    /\ pc = "delete"
    /\ Len(out') = Len(out) + 2
    /\ out'[Len(out')].t = "unable"

\* C7: a failed deletion is reported and the deletion loop goes on with the
\* next path; every path of the set but the kept one is attempted whatever
\* failed before; the run fails only on an error of the scan or the prompt,
\* and it ends with exit code 0 only once no duplicate set is left to handle.
C7_DeletionFailureIsIsolated ==
    /\ [][ /\ FailStep =>
                /\ pc' = "delete"
                /\ idx' = idx + 1
                /\ cur' = cur
                /\ index_to_keep' = index_to_keep
                /\ pending' = pending
                /\ exit_code' = -1
                /\ err' = "none"
           /\ (pc = "report" /\ pc' = "done" =>
                /\ exit_code' = 0
                /\ \A h \in pending : Len(file_map[h].paths) <= 1) ]_vars
    /\ [](KeepResolved =>
            \A j \in 1..Len(CurPaths) :
                j # index_to_keep + 1 => Cardinality(Attempts(CurPaths[j])) = 1)
    /\ [](exit_code = 1 => err \in {"read_dir", "entry", "read", "flush", "read_line"})
    /\ [](pc = "done" /\ err = "none" => exit_code = 0)
C7_Witness ==
    /\ KeepResolved
    /\ Len(CurPaths) = 3
    /\ index_to_keep = 1
    /\ FailureReported(CurPaths[1])
    /\ Attempts(CurPaths[3]) # {}
    /\ ~FailureReported(CurPaths[3])
    /\ \E h \in pending : Len(file_map[h].paths) > 1

\* a listing or a read of the scan failed; only banner and error line printed
ScanFailed == err \in {"read_dir", "entry", "read"}
Quiet(o) == \A i \in 1..Len(o) : o[i].t \in {"scanning", "error"}

\* C8: a failed directory listing or file read ends the run at once with a
\* non-zero exit code: no duplicate set is listed, no prompt is shown, no
\* file is deleted, also when the files hashed so far already hold duplicates.
C8_ScanFailureAborts ==
    /\ [](ScanFailed => pc = "done" /\ exit_code = 1 /\ Quiet(out))
    /\ [][ /\ pc # "done"
           /\ (pc \in {"start", "scan"} => fs' = fs) ]_vars
C8_Witness ==
    /\ err = "read"
    /\ pc = "done"
    /\ \E h \in DOMAIN file_map : Len(file_map[h].paths) > 1
    /\ out = <<Ev("scanning", <<>>), Ev("error", <<>>)>>

\* C9: an entry that is neither a directory nor a regular file, a symbolic
\* link included whatever its target, is never hashed and never recursed
\* into: every path of every FileRecord names a regular file, and every
\* directory scan_rec lists is a directory itself.
C9_OnlyRegularFilesIndexed ==
    (pc = "scan" \/ ScanJustDone) =>
        /\ \A h \in DOMAIN file_map : \A i \in 1..Len(file_map[h].paths) :
              LStat(fs, file_map[h].paths[i]).k = "file"
        /\ \A k \in 1..Len(stack) : LStat(fs, stack[k].path).k = "dir"

\* the places of the index that list the file p
Listings(p) ==
    UNION {{<<h, i>> : i \in {k \in 1..Len(file_map[h].paths) :
                                SameFile(file_map[h].paths[k], p)}} :
           h \in DOMAIN file_map}

\* C10: after a successful scan every regular file under the root is listed
\* exactly once in the whole index: it is not skipped, and no two listed
\* paths are the same file.
C10_EveryFileListedOnce ==
    ScanJustDone => \A p \in RegularFiles : Cardinality(Listings(p)) = 1

\* handle_duplicates is running or has returned Ok
Reporting == pc \in {"report", "prompt", "delete"} \/ (pc = "done" /\ err = "none")
Banner == <<Ev("scanning", <<>>)>>
HasDuplicateSet == \E h \in DOMAIN file_map : Len(file_map[h].paths) > 1

\* C11: a FileRecord is printed exactly if it holds 2 or more paths, and
\* once: a listing prints a record of 2 or more paths that was not printed
\* before, and the report ends only when none is left; so a tree whose
\* regular files all differ in content (or that has none) gets an empty
\* report, no prompt and exit code 0.
C11_ReportIsExactlyTheDuplicates ==
    /\ [][ /\ (pc = "report" /\ out' # out =>
                 \E h \in pending :
                    /\ Len(file_map[h].paths) >= 2
                    /\ out' = <<Ev("hashset", <<h, file_map[h].size>>)>>
                                \o Listing(file_map[h].paths, 1)
                    /\ pending' = pending \ {h})
           /\ (pc \notin {"start", "scan"} => pending' \subseteq pending)
           /\ (pc = "report" /\ pc' = "done" =>
                 /\ exit_code' = 0
                 /\ \A h \in pending : Len(file_map[h].paths) <= 1) ]_vars
    /\ [](ScanJustDone /\ (\A p \in RegularFiles : UniqueContent(p)) => ~HasDuplicateSet)
    /\ [](Reporting /\ ~HasDuplicateSet => out = Banner /\ pc \in {"report", "done"})

\* the paths scan_rec hashes in the tree f below path, in no order
RECURSIVE Walked(_, _)
Walked(f, path) ==
    {path \o <<n>> : n \in {m \in ReadDir(f, path) :
                              ~IsDir(f, path \o <<m>>) /\ IsFile(f, path \o <<m>>)}}
    \cup UNION {Walked(f, path \o <<n>>) :
                    n \in {m \in ReadDir(f, path) : IsDir(f, path \o <<m>>)}}
PathSet(h) == {file_map[h].paths[i] : i \in 1..Len(file_map[h].paths)}

\* C12: the digest-to-path-set mapping a successful scan returns is a
\* function of the tree alone, the same for every order in which the entries
\* are visited, and neither the scan nor a report-only run changes the tree:
\* a second scan finds the same mapping.
C12_MappingDependsOnTreeOnly ==
    /\ [](ScanJustDone =>
            /\ DOMAIN file_map = {Sha256(ReadFile(fs, p)) : p \in Walked(fs, <<>>)}
            /\ \A h \in DOMAIN file_map :
                  /\ PathSet(h) = {p \in Walked(fs, <<>>) : Sha256(ReadFile(fs, p)) = h}
                  /\ Cardinality(PathSet(h)) = Len(file_map[h].paths))
    /\ [][(pc \in {"start", "scan"} \/ ~do_fix) => fs' = fs]_vars
C12_Witness ==
    /\ ScanJustDone
    /\ ~do_fix
    /\ \E h \in DOMAIN file_map :
          file_map[h].paths = <<<<"sub", "c">>, <<"b">>, <<"a">>>>
    /\ \E h \in DOMAIN file_map : file_map[h].paths = <<<<"sub", "d">>>>

Printed(v) == out[1 + v].a[2]
IsPrefix(s, t) == Len(s) <= Len(t) /\ SubSeq(t, 1, Len(s)) = s

\* C14: the paths of a set are listed in the order the scan found them,
\* numbered 1..n without gaps: a path found later never moves an earlier one;
\* after an accepted v in 1..n the path printed with v is passed to no
\* deletion attempt, every other listed path is, and nothing else is.
C14_NumberNamesTheKeptPath ==
    /\ [][\A h \in DOMAIN file_map :
              h \in DOMAIN file_map' /\ IsPrefix(file_map[h].paths, file_map'[h].paths)]_vars
    /\ [](pc \in {"prompt", "delete"} =>
            \A j \in 1..Len(CurPaths) : out[1 + j] = Ev("item", <<j, CurPaths[j]>>))
    /\ [](KeepResolved =>
            /\ AcceptedValue \in 1..Len(CurPaths)
            /\ Attempts(Printed(AcceptedValue)) = {}
            /\ \A j \in 1..Len(CurPaths) :
                  j # AcceptedValue => Attempts(Printed(j)) # {}
            /\ \A i \in 1..Len(out) :
                  out[i].t = "deleting" =>
                     \E j \in 1..Len(CurPaths) : j # AcceptedValue /\ out[i].a = Printed(j))
C14_Witness ==
    /\ KeepResolved
    /\ CurPaths = <<<<"sub", "c">>, <<"b">>, <<"a">>>>
    /\ AcceptedValue = 2
    /\ Attempts(<<"sub", "c">>) # {}
    /\ Attempts(<<"a">>) # {}
    /\ Attempts(<<"b">>) = {}

C16_NoContentLost ==
    (pc = "done" /\ err = "none") =>
        \A h \in DOMAIN file_map :
            \E i \in 1..Len(file_map[h].paths) :
                /\ IsFile(fs, file_map[h].paths[i])
                /\ Sha256(ReadFile(fs, file_map[h].paths[i])) = h

\* C17: the prompt loop ends on every input stream: once standard input is
\* at its end (read_line yields the empty line), the turn that reads it
\* leaves the loop with Abstain, Keep or an error instead of prompting again.
C17_PromptLoopEndsAtEndOfInput ==
    [][ReadsLine(<<>>) => pc' # "prompt"]_vars

\* flushing the prompt or reading the line has failed
PromptFailed == err \in {"flush", "read_line"}

\* C18: when flushing the prompt or reading the line fails, the run ends at
\* once with a non-zero exit code: the failing step changes no file, deletes
\* no path of the current set and leaves the sets not yet reached unlisted;
\* nothing happens afterwards, so they stay untouched and what was deleted
\* for earlier sets stays deleted.
C18_PromptFailureAborts ==
    /\ [][ /\ (~PromptFailed /\ PromptFailed' =>
                 /\ pc = "prompt"
                 /\ pc' = "done"
                 /\ exit_code' = 1
                 /\ fs' = fs
                 /\ pending' = pending
                 /\ cur' = cur
                 /\ out' = out \o <<Ev("prompt", <<>>), Ev("error", <<>>)>>)
           /\ (PromptFailed => fs' = fs /\ pending' = pending /\ out' = out) ]_vars
    /\ [](PromptFailed =>
            /\ pc = "done"
            /\ exit_code = 1
            /\ NoDeleting(out)
            /\ \A i \in 2..Len(out) : out[i].t # "hashset")
C18_Witness ==
    /\ err = "read_line"
    /\ pc = "done"
    /\ \E h \in pending : Len(file_map[h].paths) > 1
    /\ \E h \in DOMAIN file_map \ (pending \cup {cur}) :
          \E i \in 1..Len(file_map[h].paths) : ~Exists(file_map[h].paths[i])
    /\ out[Len(out) - 2].t = "invalid_input"

\* C19: a report-only run ends, with success or with a scan error, on every
\* tree, also one with symbolic links to directories or a cycle of them: the
\* chain of directories scan_rec is in is no longer than the links a path may
\* follow plus the directories of the tree, and no path is on it twice.
C19_ReportOnlyRunTerminates ==
    /\ [](Len(stack) <= MaxSymlinks + Cardinality(DirIds))
    /\ [](\A j \in 1..Len(stack) : \A k \in 1..Len(stack) :
            stack[j].path = stack[k].path => j = k)
    /\ (~do_fix => <>(pc = "done" /\ exit_code \in {0, 1}))
C19_Witness ==
    /\ pc = "done"
    /\ ~do_fix
    /\ exit_code = 0
    /\ \E h \in DOMAIN file_map :
          \E i \in 1..Len(file_map[h].paths) :
              Len(file_map[h].paths[i]) = MaxSymlinks + 1
              /\ file_map[h].paths[i][1] = "l"
              /\ file_map[h].paths[i][MaxSymlinks] = "l"

====
